---- MODULE Spec2Model ----
(***************************************************************************)
(* State-machine model of StreamDeckController (src/streamdeck.mjs).       *)
(*                                                                         *)
(* The controller is single-threaded but asynchronous: every `await` on    *)
(* the device, on the renderer or on the file system suspends the running  *)
(* async call, and other event handlers run in between.  An action of the  *)
(* model is therefore one run-to-completion segment: an event handler up   *)
(* to its first suspension, or the resumption of a suspended call up to    *)
(* its next suspension.  A device call (clearPanel, fillKeyBuffer) takes   *)
(* effect on the panel when it is issued; the call that issued it resumes  *)
(* in a later step.  Awaits on calls that return without doing I/O (the    *)
(* early returns taken when no device is open) resume in the same step,    *)
(* since microtasks run before the next input event.                       *)
(***************************************************************************)
EXTENDS Integers, Sequences, FiniteSets, TLC

VARIABLES
    streamDeck,     \* #streamDeck: TRUE when a device handle is open
    panel,          \* the device's keys: key index -> face last written since the last clear
    buttonStates,   \* #buttonStates: key index -> registered action
    buttonTexts,    \* #buttonTexts: key index -> recorded text
    encoderCallbacks, \* #encoderCallbacks: side -> the dial's handlers
    chains,         \* #chains: the catalog
    currentChain,   \* #currentChain: None or Some(chain)
    calls,          \* the async calls in flight, oldest first
    view,           \* which redraw was requested last: "blank", "catalog", "detail"
    loads,          \* number of loadChainLayout calls made so far
    loaded,         \* TRUE once a loadChainLayout call has found chains
    fired,          \* the last input event and the callbacks its handler invoked
    errors,         \* errors reported since the last input event or load request
    trip            \* observer: progress of a navigation round trip

vars == <<streamDeck, panel, buttonStates, buttonTexts, encoderCallbacks, chains,
          currentChain, calls, view, loads, loaded, fired, errors, trip>>

(***************************************************************************)
(* Bounds of the model.                                                    *)
(***************************************************************************)
MaxCalls == 2       \* async calls (redraws, loads) in flight at once
MaxKey == 3         \* highest key index the small model presses
MaxLoads == 2       \* loadChainLayout calls in one run
ManyChains == 33    \* chains of the large catalog
LongModules == 32   \* modules of the long chain
MaxFailures == 2    \* failed button writes in one redraw

(***************************************************************************)
(* Optional values: undefined / null is None, a present value v Some(v).   *)
(***************************************************************************)
None == <<>>
Some(v) == <<v>>
Get(o) == o[1]

Empty == [k \in {} |-> None]                       \* new Map()
MapSet(m, k, v) == (k :> v) @@ m                   \* Map.prototype.set
MapHas(m, k) == k \in DOMAIN m

RECURSIVE Flatten(_)
Flatten(ss) == IF ss = <<>> THEN <<>> ELSE Head(ss) \o Flatten(Tail(ss))

(***************************************************************************)
(* The catalog document, as JSON.parse returns it (loadChainLayout, lines  *)
(* 252-253).  A document is [ok, chains]: ok is FALSE when readFile or     *)
(* JSON.parse throws or the document has no `chains` mapping; chains lists *)
(* the values of the mapping in key order.  A raw chain is                 *)
(*   [id, name, midiChannel, lanes]   (state.name, state.midiChannel)      *)
(* with lanes None, or Some of a sequence of lanes [cells], cells None or  *)
(* Some of a sequence of cells [items], items None or Some of a sequence   *)
(* of items [L, R], each side None or Some([deviceName, role]) where role  *)
(* is the key list of the side's `role` object.  Fields the controller     *)
(* only copies and logs (active, midiNote, phonia, tags, ab, the module's  *)
(* own name) are left out.                                                 *)
(***************************************************************************)
RawModule(dev, roleKeys) == [deviceName |-> dev, role |-> roleKeys]
RawItem(l, r) == [L |-> l, R |-> r]
RawCell(items) == [items |-> items]
RawLane(cells) == [cells |-> cells]
RawChain(id, name, midi, lanes) ==
    [id |-> id, name |-> name, midiChannel |-> midi, lanes |-> lanes]
Document(ok, cs) == [ok |-> ok, chains |-> cs]

(* name: chain.state?.name || 'Unnamed Chain' *)
ChainName(raw) ==
    IF raw.name = None \/ Get(raw.name) = "" THEN "Unnamed Chain" ELSE Get(raw.name)

(* role: Object.keys(item[ch].role || {})[0] *)
ModuleOf(m, ch) ==
    [deviceName |-> m.deviceName,
     role |-> IF m.role = <<>> THEN None ELSE Some(Head(m.role)),
     channel |-> ch]

(* ['L', 'R'].filter(ch => item[ch]).map(...) *)
ItemModules(item) ==
    (IF item.L # None THEN <<ModuleOf(Get(item.L), "L")>> ELSE <<>>)
    \o (IF item.R # None THEN <<ModuleOf(Get(item.R), "R")>> ELSE <<>>)

(* cell.items?.flatMap(...) ?? [] *)
CellModules(cell) ==
    IF cell.items = None THEN <<>>
    ELSE Flatten([k \in 1..Len(Get(cell.items)) |-> ItemModules(Get(cell.items)[k])])

(* chain.lanes?.[0].cells?.flatMap(...) ?? []  (for lanes with a first lane) *)
ChainModules(raw) ==
    IF raw.lanes = None THEN <<>>
    ELSE LET cells == Get(raw.lanes)[1].cells IN
         IF cells = None THEN <<>>
         ELSE Flatten([k \in 1..Len(Get(cells)) |-> CellModules(Get(cells)[k])])

(* `chain.lanes?.[0].cells` reads .cells of undefined when lanes is an     *)
(* empty array: the map callback throws a TypeError.                       *)
LanesThrow(raw) == raw.lanes # None /\ Get(raw.lanes) = <<>>

ChainOf(raw) ==
    [name |-> ChainName(raw), id |-> raw.id, midiChannel |-> raw.midiChannel,
     modules |-> ChainModules(raw)]

(* Object.values(data.chains).map(chain => ({...})) *)
ParseThrows(doc) == ~doc.ok \/ \E k \in 1..Len(doc.chains) : LanesThrow(doc.chains[k])
ParsedChains(doc) == [k \in 1..Len(doc.chains) |-> ChainOf(doc.chains[k])]

(***************************************************************************)
(* Pure helpers of the controller.                                         *)
(***************************************************************************)
(* An event payload is a bare number [shape |-> "number", value |-> i] or  *)
(* a structured event [shape |-> "object", index |-> i].                   *)
NumberKey(i) == [shape |-> "number", value |-> i]
ObjectKey(i) == [shape |-> "object", index |-> i]

GetKeyIndex(keyIndex) ==
    IF keyIndex.shape = "object" THEN keyIndex.index ELSE keyIndex.value

(* this.#buttonTexts.get(index) || `Unknown Button ${index}`; index is the *)
(* key index getKeyIndex returned.                                         *)
GetButtonText(texts, index) ==
    IF MapHas(texts, index) /\ texts[index] # ""
    THEN texts[index]
    ELSE "Unknown Button " \o ToString(index)

(* this.#chains.findLast(...) for find: the last match *)
FindChainLast(cat, buttonText) ==
    LET hits == {k \in 1..Len(cat) : cat[k].name = buttonText} IN
    IF hits = {} THEN None
    ELSE Some(cat[CHOOSE k \in hits : \A j \in hits : k >= j])

(* this.#chains.find(c => c.name === buttonText): None or Some(first match) *)
FindChain(cat, buttonText) ==
    LET hits == {k \in 1..Len(cat) : cat[k].name = buttonText} IN
    IF hits = {} THEN None
    ELSE Some(cat[CHOOSE k \in hits : \A j \in hits : k <= j])

(* String.prototype.toLowerCase on the role names the documents use *)
ToLowerCase(s) ==
    CASE s = "Source" -> "source"
      [] s = "PROC" -> "proc"
      [] s = "Dest" -> "dest"
      [] s = "Mixer" -> "mixer"
      [] OTHER -> s

Red == "#FF0000"
Brown == "#8B4513"

(* #getColorForRole, for a role that is a string *)
GetColorForRole(role) ==
    CASE ToLowerCase(role) = "source" -> "#00008B"
      [] ToLowerCase(role) = "proc" -> "#FF8C00"
      [] ToLowerCase(role) = "dest" -> "#006400"
      [] OTHER -> "#333333"

(* role.toLowerCase() throws a TypeError when role is undefined; the map   *)
(* in showModules visits every module of the chain.                        *)
ShowModulesThrows(chain) ==
    \E k \in 1..Len(chain.modules) : chain.modules[k].role = None

(* label: module.deviceName || 'Unknown Device' *)
ModuleLabel(module) ==
    IF module.deviceName = None \/ Get(module.deviceName) = ""
    THEN "Unknown Device" ELSE Get(module.deviceName)

(* showModules: chain.modules.map((module, index) => ({label, backgroundColor, ...})) *)
LayoutOf(chain) ==
    [k \in 1..Len(chain.modules) |->
        [label |-> ModuleLabel(chain.modules[k]),
         backgroundColor |-> GetColorForRole(Get(chain.modules[k].role)),
         module |-> chain.modules[k]]]

(* The entries registerButtonAction stores under Number(keyIndex).  A       *)
(* callback is a closure made for one button: it is named by the kind of   *)
(* button, the key index and the label it captures.                        *)
HeaderAction(chainName) ==
    [type |-> "currentChain", name |-> chainName,
     pressCallback |-> Some(<<"currentChain", 1, chainName>>),
     releaseCallback |-> None]
ModuleAction(buttonIndex, button) ==
    [type |-> "module", name |-> button.label, role |-> button.module.role,
     pressCallback |-> Some(<<"module", buttonIndex, button.label>>),
     releaseCallback |-> None]

(* The limits of the two layout loops *)
MaxChainButtons == 31
MaxModuleButtons == 30

(***************************************************************************)
(* Async calls.  A suspended call is a record                              *)
(*   fn     the redraw it runs: "showChains" or "loadChain"                *)
(*   load   TRUE when it runs inside loadChainLayout                       *)
(*   pc     the await it is suspended on: "readFile", "clearPanel",        *)
(*          "setBrightness", "render" (sharp) or "fill" (fillKeyBuffer)    *)
(*   doc    the document readFile will deliver (pc = "readFile")           *)
(*   chain  loadChain's argument                                           *)
(*   step   which setButtonText call is running: "nav" (button 0),         *)
(*          "chains" (showChains' loop), "header" (button 1) or "modules"  *)
(*          (createCustomLayout's loop), with i the 0-based loop index     *)
(*   key, face   the arguments of the running setButtonText                *)
(***************************************************************************)
Face(text, backgroundColor, midiChannel) ==
    [text |-> text, backgroundColor |-> backgroundColor, midiChannel |-> midiChannel]

NoFace == Face("", "", None)

NewCall(fn, load, pc, doc, chain) ==
    [fn |-> fn, load |-> load, pc |-> pc, doc |-> doc, chain |-> chain,
     step |-> "none", i |-> 0, key |-> 0, face |-> NoFace]

Slots == 1..Len(calls)
Idle == calls = <<>>
MayStart == Len(calls) < MaxCalls
Spawn(call) == Append(calls, call)
(* the calls in flight with call s replaced by `next`, or dropped when it returned *)
Resumed(s, next) ==
    IF next = None
    THEN [k \in 1..(Len(calls) - 1) |-> IF k < s THEN calls[k] ELSE calls[k + 1]]
    ELSE [calls EXCEPT ![s] = Get(next)]
At(s, pc) == s \in Slots /\ calls[s].pc = pc

(* setButtonText up to `await sharp(...).toBuffer()`, for an open device *)
BeginText(c, step, i, key, face) ==
    [c EXCEPT !.pc = "render", !.step = step, !.i = i, !.key = key, !.face = face]

(* showChains' loop with `i + 2` for the button index *)
ChainLoopFromTwo(c, cat, i) ==
    IF i < Len(cat) /\ i < MaxChainButtons
    THEN Some(BeginText(c, "chains", i, i + 2,
                        Face(cat[i + 1].name, Brown, cat[i + 1].midiChannel)))
    ELSE None

(* One turn of showChains' loop, lines 307-317: the call for chain i, or   *)
(* None when the loop ends.                                                *)
ChainLoop(c, cat, i) ==
    IF i < Len(cat) /\ i < MaxChainButtons
    THEN Some(BeginText(c, "chains", i, i + 1,
                        Face(cat[i + 1].name, Brown, cat[i + 1].midiChannel)))
    ELSE None

(* createCustomLayout's loop without the `index >= 30` break *)
LayoutLoopNoBreak(c, layout, index) ==
    IF index < Len(layout)
    THEN Some(BeginText(c, "modules", index, index + 2,
                        Face(layout[index + 1].label,
                             layout[index + 1].backgroundColor, None)))
    ELSE None

(* One turn of createCustomLayout's loop, lines 395-425: the call for      *)
(* layout entry `index`, or None when the loop ends or breaks.             *)
LayoutLoop(c, layout, index) ==
    IF index < Len(layout) /\ ~(index >= MaxModuleButtons)
    THEN Some(BeginText(c, "modules", index, index + 2,
                        Face(layout[index + 1].label,
                             layout[index + 1].backgroundColor, None)))
    ELSE None

(***************************************************************************)
(* What a call does when setButtonText returns to it: the actions it       *)
(* registers, whether it throws, and the call it suspends on next (None    *)
(* when it returns).  cat and cur are #chains and #currentChain, read at   *)
(* that moment.                                                            *)
(***************************************************************************)
Registered(c, states) ==
    CASE c.fn = "loadChain" /\ c.step = "header" ->
            MapSet(states, 1, HeaderAction(Get(c.chain).name))
      [] c.fn = "loadChain" /\ c.step = "modules" ->
            MapSet(states, c.i + 2,
                   ModuleAction(c.i + 2, LayoutOf(Get(c.chain))[c.i + 1]))
      [] OTHER -> states

Throws(c) ==
    c.fn = "loadChain" /\ c.step = "header" /\ ShowModulesThrows(Get(c.chain))

Continue(c, cat, cur) ==
    CASE c.fn = "showChains" /\ c.step = "nav" -> ChainLoop(c, cat, 0)
      [] c.fn = "showChains" /\ c.step = "chains" -> ChainLoop(c, cat, c.i + 1)
      [] c.fn = "loadChain" /\ c.step = "nav" ->
            Some(BeginText(c, "header", 0, 1,
                           Face(Get(c.chain).name, Brown, Get(cur).midiChannel)))
      [] c.fn = "loadChain" /\ c.step = "header" ->
            IF ShowModulesThrows(Get(c.chain)) THEN None
            ELSE LayoutLoop(c, LayoutOf(Get(c.chain)), 0)
      [] c.fn = "loadChain" /\ c.step = "modules" ->
            LayoutLoop(c, LayoutOf(Get(c.chain)), c.i + 1)


(***************************************************************************)
(* Catalog documents the environment supplies.                             *)
(***************************************************************************)
SynthA == RawModule(Some("Synth A"), <<"source">>)
BassComp == RawModule(Some("Bass"), <<"proc">>)
Nameless == RawModule(None, <<>>)
Mixer == RawModule(None, <<"Mixer", "proc">>)

OneLane(items) == Some(<<RawLane(Some(<<RawCell(Some(items))>>))>>)

DocTwo ==
    Document(TRUE,
        <<RawChain(1, Some("Drums"), Some(1), OneLane(<<RawItem(Some(SynthA), Some(BassComp))>>)),
          RawChain(2, Some("Bass"), Some(2), None)>>)
DocDup ==
    Document(TRUE,
        <<RawChain(1, Some("drums"), None, None),
          RawChain(2, Some("Drums"), Some(3), Some(<<RawLane(None)>>)),
          RawChain(3, Some("Drums"), None, Some(<<RawLane(Some(<<RawCell(None)>>))>>))>>)
DocOdd ==
    Document(TRUE,
        <<RawChain(1, None, None, OneLane(<<RawItem(Some(Nameless), None)>>)),
          RawChain(2, Some("Unknown Button 3"), Some(4),
                   OneLane(<<RawItem(None, Some(Mixer))>>))>>)
DocNoLane == Document(TRUE, <<RawChain(1, Some("Bass"), None, Some(<<>>))>>)
DocEmpty == Document(TRUE, <<>>)
DocUnreadable == Document(FALSE, <<>>)

SmallDocuments == {DocTwo, DocDup, DocOdd, DocNoLane, DocEmpty, DocUnreadable}
(* a catalog of n chains without modules, every other one with a MIDI channel *)
ManyDoc(n) ==
    Document(TRUE,
        [k \in 1..n |->
            RawChain(k, Some("Chain " \o ToString(k)),
                     IF k % 2 = 0 THEN Some(k) ELSE None, None)])

(* a catalog of one chain with m modules, two to an item, in two cells *)
LongItems(from, to) ==
    [k \in 1..((to - from + 2) \div 2) |->
        RawItem(Some(RawModule(Some("Module " \o ToString(from + 2 * k - 2)), <<"dest">>)),
                IF from + 2 * k - 1 <= to
                THEN Some(RawModule(Some("Module " \o ToString(from + 2 * k - 1)), <<"Source">>))
                ELSE None)]
LongDoc(m) ==
    Document(TRUE,
        <<RawChain(1, Some("Long"), Some(9),
                   Some(<<RawLane(Some(<<RawCell(Some(LongItems(1, 4))),
                                         RawCell(Some(LongItems(5, m)))>>))>>))>>)

LargeDocuments ==
    {ManyDoc(MaxChainButtons), ManyDoc(ManyChains),
     LongDoc(MaxModuleButtons), LongDoc(LongModules)}
FarKeys == {NumberKey(i) : i \in (MaxChainButtons - 1)..(MaxChainButtons + 1)}

SmallKeys == {NumberKey(i) : i \in 0..MaxKey} \cup {ObjectKey(i) : i \in 0..MaxKey}

(***************************************************************************)
(* The state after construction: #initialize has either opened the device  *)
(* and cleared it (resetDeck) or failed and left #streamDeck null.         *)
(***************************************************************************)
NoEvent == [event |-> "none", index |-> 0, invoked |-> <<>>]
NoTrip == [stage |-> 0, a |-> None, b |-> None, before |-> Empty]

(* #encoderCallbacks as constructed: every handler null *)
NoHandlers == [rotate |-> None, press |-> None, release |-> None]
NoEncoderCallbacks == [left |-> NoHandlers, right |-> NoHandlers]

Init ==
    /\ streamDeck \in BOOLEAN
    /\ panel = Empty
    /\ buttonStates = Empty
    /\ buttonTexts = Empty
    /\ encoderCallbacks = NoEncoderCallbacks
    /\ chains = <<>>
    /\ currentChain = None
    /\ calls = <<>>
    /\ view = "blank"
    /\ loads = 0
    /\ loaded = FALSE
    /\ fired = NoEvent
    /\ errors = {}
    /\ trip = NoTrip

(***************************************************************************)
(* 'down' listener and #handleKeyPress, lines 71-75 and 197-215, up to the *)
(* first await of the redraw it starts.  The listeners exist only when the *)
(* device was opened.  showChains and loadChain call resetDeck, which      *)
(* issues clearPanel and suspends.  No registered callback is invoked.     *)
(***************************************************************************)
(* #handleKeyPress with `index <= 1` for `index === 0` *)
PressTargetOffByOne(index) ==
    IF index <= 1 THEN "showChains"
    ELSE IF FindChain(chains, GetButtonText(buttonTexts, index)) # None THEN "loadChain"
    ELSE "none"

(* which branch of #handleKeyPress a key index takes, lines 200-213 *)
PressTarget(index) ==
    IF index = 0 THEN "showChains"
    ELSE IF FindChain(chains, GetButtonText(buttonTexts, index)) # None THEN "loadChain"
    ELSE "none"

KeyDown(keyIndex) ==
    /\ streamDeck
    /\ MayStart
    /\ LET index == GetKeyIndex(keyIndex)
           chain == FindChain(chains, GetButtonText(buttonTexts, index))
       IN  CASE PressTarget(index) = "showChains" ->
                /\ view' = "catalog"
                /\ panel' = Empty
                /\ calls' = Spawn(NewCall("showChains", FALSE, "clearPanel", None, None))
                /\ UNCHANGED currentChain
             [] PressTarget(index) = "loadChain" ->
                /\ view' = "detail"
                /\ currentChain' = chain
                /\ panel' = Empty
                /\ calls' = Spawn(NewCall("loadChain", FALSE, "clearPanel", None, chain))
             [] OTHER -> UNCHANGED <<view, currentChain, panel, calls>>
    /\ fired' = [event |-> "down", index |-> GetKeyIndex(keyIndex), invoked |-> <<>>]
    /\ errors' = {}
    /\ UNCHANGED <<streamDeck, buttonStates, buttonTexts, encoderCallbacks, chains,
                   loads, loaded>>

(***************************************************************************)
(* loadChainLayout, lines 250-252, up to `await fs.readFile(...)`.         *)
(***************************************************************************)
LoadChainLayout(doc) ==
    /\ MayStart
    /\ loads < MaxLoads
    /\ loads' = loads + 1
    /\ calls' = Spawn(NewCall("showChains", TRUE, "readFile", Some(doc), None))
    /\ fired' = NoEvent
    /\ errors' = {}
    /\ UNCHANGED <<streamDeck, panel, buttonStates, buttonTexts, encoderCallbacks,
                   chains, currentChain, view, loaded>>

(***************************************************************************)
(* loadChainLayout resumes after readFile, lines 253-284.  #chains is      *)
(* assigned before the empty check; every throw is caught and logged.      *)
(* Without a device showChains does nothing and returns in the same step.  *)
(***************************************************************************)
ReadFileDone(s) ==
    /\ At(s, "readFile")
    /\ LET doc == Get(calls[s].doc) IN
       IF ParseThrows(doc)
       THEN /\ errors' = errors \cup {"Error loading chain layout: cannot parse"}
            /\ calls' = Resumed(s, None)
            /\ UNCHANGED <<chains, view, panel, loaded>>
       ELSE /\ chains' = ParsedChains(doc)
            /\ IF Len(doc.chains) = 0
               THEN /\ errors' = errors \cup {"Error loading chain layout: No chains found"}
                    /\ calls' = Resumed(s, None)
                    /\ UNCHANGED <<view, panel, loaded>>
               ELSE /\ loaded' = TRUE
                    /\ view' = "catalog"
                    /\ panel' = IF streamDeck THEN Empty ELSE panel
                    /\ calls' = Resumed(s, IF streamDeck
                                           THEN Some([calls[s] EXCEPT !.pc = "clearPanel",
                                                                      !.doc = None])
                                           ELSE None)
                    /\ UNCHANGED errors
    /\ UNCHANGED <<streamDeck, buttonStates, buttonTexts, encoderCallbacks,
                   currentChain, loads, fired>>

(***************************************************************************)
(* resetDeck resumes after clearPanel, line 102: setBrightness is issued.  *)
(***************************************************************************)
ClearPanelDone(s) ==
    /\ At(s, "clearPanel")
    /\ calls' = Resumed(s, Some([calls[s] EXCEPT !.pc = "setBrightness"]))
    /\ UNCHANGED <<streamDeck, panel, buttonStates, buttonTexts, encoderCallbacks,
                   chains, currentChain, view, loads, loaded, fired, errors>>

(* resetDeck that also resets the dial handlers *)
SetBrightnessDoneClearsDials(s) ==
    /\ At(s, "setBrightness")
    /\ buttonStates' = Empty
    /\ buttonTexts' = Empty
    /\ encoderCallbacks' = NoEncoderCallbacks
    /\ calls' = Resumed(s, Some(BeginText(calls[s], "nav", 0, 0,
                                          Face("Show Chains", Red, None))))
    /\ UNCHANGED <<streamDeck, panel, chains, currentChain, view, loads, loaded,
                   fired, errors>>

(* resetDeck without `this.#buttonTexts.clear()` *)
SetBrightnessDoneKeepsTexts(s) ==
    /\ At(s, "setBrightness")
    /\ buttonStates' = Empty
    /\ calls' = Resumed(s, Some(BeginText(calls[s], "nav", 0, 0,
                                          Face("Show Chains", Red, None))))
    /\ UNCHANGED <<streamDeck, panel, buttonTexts, encoderCallbacks, chains,
                   currentChain, view, loads, loaded, fired, errors>>

(***************************************************************************)
(* resetDeck resumes after setBrightness, lines 103-104, returns to the    *)
(* redraw, and createShowChainsButton calls setButtonText(0, ...).         *)
(***************************************************************************)
SetBrightnessDone(s) ==
    /\ At(s, "setBrightness")
    /\ buttonStates' = Empty
    /\ buttonTexts' = Empty
    /\ calls' = Resumed(s, Some(BeginText(calls[s], "nav", 0, 0,
                                          Face("Show Chains", Red, None))))
    /\ UNCHANGED <<streamDeck, panel, encoderCallbacks, chains, currentChain, view,
                   loads, loaded, fired, errors>>

(***************************************************************************)
(* setButtonText resumes after the render, line 178: fillKeyBuffer is      *)
(* issued and the key shows the face.                                      *)
(***************************************************************************)
RenderDone(s) ==
    /\ At(s, "render")
    /\ panel' = MapSet(panel, calls[s].key, calls[s].face)
    /\ calls' = Resumed(s, Some([calls[s] EXCEPT !.pc = "fill"]))
    /\ UNCHANGED <<streamDeck, buttonStates, buttonTexts, encoderCallbacks, chains,
                   currentChain, view, loads, loaded, fired, errors>>

(***************************************************************************)
(* setButtonText resumes after fillKeyBuffer, line 181, records the text   *)
(* and returns; the redraw registers the button's action, if any, and goes *)
(* on to its next setButtonText or ends.  A TypeError thrown by            *)
(* showModules rejects loadChain, which nothing awaits.                    *)
(***************************************************************************)
FillDone(s) ==
    /\ At(s, "fill")
    /\ buttonTexts' = MapSet(buttonTexts, calls[s].key, calls[s].face.text)
    /\ buttonStates' = Registered(calls[s], buttonStates)
    /\ errors' = IF Throws(calls[s])
                 THEN errors \cup {"Unhandled rejection: TypeError in showModules"}
                 ELSE errors
    /\ calls' = Resumed(s, Continue(calls[s], chains, currentChain))
    /\ UNCHANGED <<streamDeck, panel, encoderCallbacks, chains, currentChain, view,
                   loads, loaded, fired>>

(***************************************************************************)
(* setButtonText when the render (line 172) or fillKeyBuffer (line 178)    *)
(* rejects: the catch of lines 183-185 logs the error, no text is          *)
(* recorded, and setButtonText returns normally, so the redraw goes on as  *)
(* after a successful write.  A rejected fillKeyBuffer may or may not have *)
(* reached the device.                                                     *)
(***************************************************************************)
TextError(key) == "Error setting text for button " \o ToString(key)
MayFail == Cardinality(errors) < MaxFailures
Without(faces, key) == [k \in DOMAIN faces \ {key} |-> faces[k]]

(* the redraw after setButtonText returned from call s, with the errors logged *)
Returned(s, logged) ==
    /\ buttonStates' = Registered(calls[s], buttonStates)
    /\ errors' = IF Throws(calls[s])
                 THEN logged \cup {"Unhandled rejection: TypeError in showModules"}
                 ELSE logged
    /\ calls' = Resumed(s, Continue(calls[s], chains, currentChain))

(* setButtonText without the try/catch: the rejection ends the redraw *)
RenderFailEndsRedraw(s) ==
    /\ At(s, "render")
    /\ MayFail
    /\ errors' = errors \cup {"Unhandled rejection: render failed"}
    /\ calls' = Resumed(s, None)
    /\ UNCHANGED <<streamDeck, panel, buttonStates, buttonTexts, encoderCallbacks, chains,
                   currentChain, view, loads, loaded, fired>>

RenderFail(s) ==
    /\ At(s, "render")
    /\ MayFail
    /\ Returned(s, errors \cup {TextError(calls[s].key)})
    /\ UNCHANGED <<streamDeck, panel, buttonTexts, encoderCallbacks, chains, currentChain,
                   view, loads, loaded, fired>>

FillFail(s) ==
    /\ At(s, "fill")
    /\ MayFail
    /\ panel' \in {panel, Without(panel, calls[s].key)}
    /\ Returned(s, errors \cup {TextError(calls[s].key)})
    /\ UNCHANGED <<streamDeck, buttonTexts, encoderCallbacks, chains, currentChain,
                   view, loads, loaded, fired>>

(***************************************************************************)
(* Spec: the controller with overlapping handlers and small catalogs.  The *)
(* round-trip observer is not kept.                                        *)
(***************************************************************************)
Next ==
    \/ \E k \in SmallKeys : KeyDown(k) /\ UNCHANGED trip
    \/ \E d \in SmallDocuments : LoadChainLayout(d) /\ UNCHANGED trip
    \/ \E s \in Slots : ReadFileDone(s) /\ UNCHANGED trip
    \/ \E s \in Slots : ClearPanelDone(s) /\ UNCHANGED trip
    \/ \E s \in Slots : SetBrightnessDone(s) /\ UNCHANGED trip
    \/ \E s \in Slots : RenderDone(s) /\ UNCHANGED trip
    \/ \E s \in Slots : FillDone(s) /\ UNCHANGED trip

Spec == Init /\ [][Next]_vars

(***************************************************************************)
(* The round-trip observer.  A trip starts (stage 1) with a button-down in *)
(* the settled catalog view on a slot whose text is the name of exactly    *)
(* one chain, a, when another slot shows a different such name; `before`   *)
(* is the text table at that press.  A button-down on key 0 with no redraw *)
(* in progress takes it to stage 2, and a button-down in the settled       *)
(* catalog view on a slot showing another uniquely named chain, b, to      *)
(* stage 3.  Any other press and any load request ends the trip.           *)
(***************************************************************************)
Named(text) == {k \in 1..Len(chains) : chains[k].name = text}
ShowsChain(index) ==
    /\ index >= 1
    /\ MapHas(buttonTexts, index)
    /\ Cardinality(Named(buttonTexts[index])) = 1
ChainShownOn(index) == chains[CHOOSE k \in Named(buttonTexts[index]) : TRUE]
SettledCatalog == Idle /\ view = "catalog"

TripAfterKey(keyIndex) ==
    LET index == GetKeyIndex(keyIndex) IN
    IF SettledCatalog /\ ShowsChain(index) /\ trip.stage = 2
       /\ ChainShownOn(index).name # Get(trip.a).name
    THEN [trip EXCEPT !.stage = 3, !.b = Some(ChainShownOn(index))]
    ELSE IF SettledCatalog /\ ShowsChain(index)
            /\ \E j \in DOMAIN buttonTexts :
                    ShowsChain(j) /\ buttonTexts[j] # buttonTexts[index]
    THEN [stage |-> 1, a |-> Some(ChainShownOn(index)), b |-> None,
          before |-> buttonTexts]
    ELSE IF Idle /\ trip.stage = 1 /\ index = 0
    THEN [trip EXCEPT !.stage = 2]
    ELSE NoTrip

(***************************************************************************)
(* SpecSeq: the controller when every input event and load request comes   *)
(* after the previous redraw has ended, with small and large catalogs.     *)
(***************************************************************************)
SeqDocuments == SmallDocuments \cup LargeDocuments
SeqKeys == SmallKeys \cup FarKeys

NextSeq ==
    \/ \E k \in SeqKeys : Idle /\ KeyDown(k) /\ trip' = TripAfterKey(k)
    \/ \E d \in SeqDocuments : Idle /\ LoadChainLayout(d) /\ trip' = NoTrip
    \/ \E s \in Slots : ReadFileDone(s) /\ UNCHANGED trip
    \/ \E s \in Slots : ClearPanelDone(s) /\ UNCHANGED trip
    \/ \E s \in Slots : SetBrightnessDone(s) /\ UNCHANGED trip
    \/ \E s \in Slots : RenderDone(s) /\ UNCHANGED trip
    \/ \E s \in Slots : FillDone(s) /\ UNCHANGED trip

SpecSeq == Init /\ [][NextSeq]_vars

(***************************************************************************)
(* registerButtonAction called by the host program, lines 188-195: the     *)
(* entry is stored under Number(keyIndex), which is NaN for a structured   *)
(* payload; a Map finds a NaN key again under NaN.                         *)
(***************************************************************************)
NaN == 0 - 1
NumberOf(keyIndex) == IF keyIndex.shape = "number" THEN keyIndex.value ELSE NaN

UserAction(keyIndex) ==
    [type |-> "user", name |-> "Custom",
     pressCallback |-> Some(<<"user", NumberOf(keyIndex), "press">>),
     releaseCallback |-> Some(<<"user", NumberOf(keyIndex), "release">>)]

RegisterButtonAction(keyIndex) ==
    /\ buttonStates' = MapSet(buttonStates, NumberOf(keyIndex), UserAction(keyIndex))
    /\ fired' = NoEvent
    /\ UNCHANGED <<streamDeck, panel, buttonTexts, encoderCallbacks, chains, currentChain,
                   calls, view, loads, loaded, errors>>

(***************************************************************************)
(* 'up' listener and #handleKeyRelease, lines 77-81 and 217-224: the entry *)
(* is looked up under Number(keyIndex), not under #getKeyIndex(keyIndex).  *)
(***************************************************************************)
(* the callbacks #handleKeyRelease invokes *)
Released(keyIndex) ==
    LET index == NumberOf(keyIndex) IN
    IF MapHas(buttonStates, index) /\ buttonStates[index].releaseCallback # None
    THEN <<Get(buttonStates[index].releaseCallback)>>
    ELSE <<>>

KeyUp(keyIndex) ==
    /\ streamDeck
    /\ fired' = [event |-> "up", index |-> GetKeyIndex(keyIndex),
                 invoked |-> Released(keyIndex)]
    /\ UNCHANGED <<streamDeck, panel, buttonStates, buttonTexts, encoderCallbacks, chains,
                   currentChain, calls, view, loads, loaded, errors>>

(***************************************************************************)
(* registerEncoderActions, lines 226-233, and the three dial handlers,     *)
(* lines 235-248, reached from the 'dial', 'dialDown' and 'dialUp'         *)
(* listeners.  Encoder 0 is the left dial, any other encoder the right.    *)
(* A handler the host did not pass is undefined.                           *)
(***************************************************************************)
EncoderKey(encoder) == IF encoder = 0 THEN "left" ELSE "right"

Handlers(encoder, kinds) ==
    [rotate |-> IF "rotate" \in kinds THEN Some(<<"dial", encoder, "rotate">>) ELSE None,
     press |-> IF "press" \in kinds THEN Some(<<"dial", encoder, "press">>) ELSE None,
     release |-> IF "release" \in kinds THEN Some(<<"dial", encoder, "release">>) ELSE None]

RegisterEncoderActions(encoder, kinds) ==
    /\ encoderCallbacks' =
            [encoderCallbacks EXCEPT ![EncoderKey(encoder)] = Handlers(encoder, kinds)]
    /\ fired' = NoEvent
    /\ UNCHANGED <<streamDeck, panel, buttonStates, buttonTexts, chains, currentChain,
                   calls, view, loads, loaded, errors>>

(* this.#encoderCallbacks[encoderKey].<handler>?.(...) *)
Called(handler) == IF handler = None THEN <<>> ELSE <<Get(handler)>>

HandleEncoderRotate(encoder) ==
    /\ streamDeck
    /\ fired' = [event |-> "dial", index |-> encoder,
                 invoked |-> Called(encoderCallbacks[EncoderKey(encoder)].rotate)]
    /\ UNCHANGED <<streamDeck, panel, buttonStates, buttonTexts, encoderCallbacks, chains,
                   currentChain, calls, view, loads, loaded, errors>>

HandleEncoderPress(encoder) ==
    /\ streamDeck
    /\ fired' = [event |-> "dialDown", index |-> encoder,
                 invoked |-> Called(encoderCallbacks[EncoderKey(encoder)].press)]
    /\ UNCHANGED <<streamDeck, panel, buttonStates, buttonTexts, encoderCallbacks, chains,
                   currentChain, calls, view, loads, loaded, errors>>

HandleEncoderRelease(encoder) ==
    /\ streamDeck
    /\ fired' = [event |-> "dialUp", index |-> encoder,
                 invoked |-> Called(encoderCallbacks[EncoderKey(encoder)].release)]
    /\ UNCHANGED <<streamDeck, panel, buttonStates, buttonTexts, encoderCallbacks, chains,
                   currentChain, calls, view, loads, loaded, errors>>

(***************************************************************************)
(* SpecIO: the controller with its whole interface: the host registers     *)
(* button and dial actions, keys go down and up, dials turn and are        *)
(* pressed.  Every input event and every call of the host comes after the  *)
(* previous redraw has ended.                                              *)
(***************************************************************************)
Encoders == {0, 1}
HandlerKinds == {{"rotate", "press", "release"}, {"rotate"}}
HostKeys == {NumberKey(2), ObjectKey(2)}

NextIO ==
    \/ \E k \in SmallKeys : Idle /\ KeyDown(k) /\ UNCHANGED trip
    \/ \E k \in SmallKeys : Idle /\ KeyUp(k) /\ UNCHANGED trip
    \/ \E d \in SmallDocuments : Idle /\ LoadChainLayout(d) /\ UNCHANGED trip
    \/ \E k \in HostKeys : Idle /\ RegisterButtonAction(k) /\ UNCHANGED trip
    \/ \E e \in Encoders, h \in HandlerKinds :
            Idle /\ RegisterEncoderActions(e, h) /\ UNCHANGED trip
    \/ \E e \in Encoders : Idle /\ HandleEncoderRotate(e) /\ UNCHANGED trip
    \/ \E e \in Encoders : Idle /\ HandleEncoderPress(e) /\ UNCHANGED trip
    \/ \E e \in Encoders : Idle /\ HandleEncoderRelease(e) /\ UNCHANGED trip
    \/ \E s \in Slots : ReadFileDone(s) /\ UNCHANGED trip
    \/ \E s \in Slots : ClearPanelDone(s) /\ UNCHANGED trip
    \/ \E s \in Slots : SetBrightnessDone(s) /\ UNCHANGED trip
    \/ \E s \in Slots : RenderDone(s) /\ UNCHANGED trip
    \/ \E s \in Slots : FillDone(s) /\ UNCHANGED trip

SpecIO == Init /\ [][NextIO]_vars

(***************************************************************************)
(* SpecFail: the controller when button writes may fail; every button-down *)
(* and load request comes after the previous redraw has ended.             *)
(***************************************************************************)
NextFail ==
    \/ \E k \in SmallKeys : Idle /\ KeyDown(k) /\ UNCHANGED trip
    \/ \E d \in SmallDocuments : Idle /\ LoadChainLayout(d) /\ UNCHANGED trip
    \/ \E s \in Slots : ReadFileDone(s) /\ UNCHANGED trip
    \/ \E s \in Slots : ClearPanelDone(s) /\ UNCHANGED trip
    \/ \E s \in Slots : SetBrightnessDone(s) /\ UNCHANGED trip
    \/ \E s \in Slots : RenderDone(s) /\ UNCHANGED trip
    \/ \E s \in Slots : RenderFail(s) /\ UNCHANGED trip
    \/ \E s \in Slots : FillDone(s) /\ UNCHANGED trip
    \/ \E s \in Slots : FillFail(s) /\ UNCHANGED trip

SpecFail == Init /\ [][NextFail]_vars

(***************************************************************************)
(* Views, as the claims speak of them.  The chain-detail view is settled   *)
(* when its redraw has ended without an error.                             *)
(***************************************************************************)
SettledDetail == Idle /\ view = "detail" /\ currentChain # None /\ errors = {}
TextsOf(faces) == [k \in DOMAIN faces |-> faces[k].text]

(***************************************************************************)
(* C1  Navigation round trip.  From the settled catalog view, a            *)
(* button-down on the slot showing a uniquely named chain A selects A; a   *)
(* following button-down on key 0 returns to the catalog view with the     *)
(* same key -> text table as before A was pressed; a following button-down *)
(* on the slot showing another uniquely named chain B selects B and not A. *)
(* Each press comes after the previous redraw has ended.                   *)
(***************************************************************************)
NavigationRoundTrip ==
    /\ trip.stage = 1 => view = "detail" /\ currentChain = trip.a
    /\ trip.stage = 2 => view = "catalog" /\ (Idle => buttonTexts = trip.before)
    /\ trip.stage = 3 =>
          view = "detail" /\ currentChain = trip.b /\ currentChain # trip.a

RoundTripMade ==
    /\ trip.stage = 3 /\ Idle /\ errors = {}
    /\ Len(Get(trip.a).modules) > 0
    /\ \A k \in 1..Len(Get(trip.a).modules) : Get(trip.a).modules[k].role # None
    /\ Cardinality(DOMAIN trip.before) >= 3
    /\ buttonTexts[1] = Get(trip.b).name

(***************************************************************************)
(* A key of the settled chain-detail view that is bound to a module.       *)
(***************************************************************************)
ModuleSlot(index) ==
    /\ index >= 2
    /\ MapHas(buttonStates, index)
    /\ buttonStates[index].type = "module"
    /\ index - 2 < Len(Get(currentChain).modules)
    /\ MapHas(buttonTexts, index)
    /\ buttonTexts[index] = ModuleLabel(Get(currentChain).modules[index - 1])

(***************************************************************************)
(* C2  Module dispatch.  In the settled chain-detail view, a button-down   *)
(* on a key i >= 2 bound to a module invokes the press callback registered *)
(* for that key exactly once and no other callback.                        *)
(***************************************************************************)
ModuleDispatch ==
    [][\A k \in SeqKeys :
          (SettledDetail /\ ModuleSlot(GetKeyIndex(k)) /\ KeyDown(k))
          => fired'.invoked = <<Get(buttonStates[GetKeyIndex(k)].pressCallback)>>]_vars

(***************************************************************************)
(* C3  A button-down on a module slot never changes navigation: the view   *)
(* and the selected chain stay, and no device clear or redraw is started,  *)
(* whatever the module's label.                                            *)
(***************************************************************************)
ModulePressKeepsNavigation ==
    [][\A k \in SeqKeys :
          (SettledDetail /\ ModuleSlot(GetKeyIndex(k)) /\ KeyDown(k))
          => UNCHANGED <<view, currentChain, panel, calls>>]_vars

(***************************************************************************)
(* C4  In the settled chain-detail view of chain c, key 1 shows c's name   *)
(* and a button-down on key 1 has no navigation side effect: the selected  *)
(* chain stays c and no device clear or redraw is started.                 *)
(***************************************************************************)
HeaderPressKeepsNavigation ==
    [][\A k \in SeqKeys :
          (SettledDetail /\ GetKeyIndex(k) = 1 /\ KeyDown(k))
          => /\ buttonTexts[1] = Get(currentChain).name
             /\ UNCHANGED <<view, currentChain, panel, calls>>]_vars

(***************************************************************************)
(* Layouts, as the claims state them: key 0 shows "Show Chains" and entry  *)
(* k (0-based) of `names` is on key first + k, for the first `limit`       *)
(* entries; `head` are the keys in between.                                *)
(***************************************************************************)
Least(a, b) == IF a < b THEN a ELSE b
Placed(head, names, first, limit) ==
    [key \in {0} \cup DOMAIN head \cup (first..(first + Least(Len(names), limit) - 1)) |->
        IF key = 0 THEN "Show Chains"
        ELSE IF key \in DOMAIN head THEN head[key]
        ELSE names[key - first + 1]]
ChainNames(cat) == [k \in 1..Len(cat) |-> cat[k].name]
ModuleLabels(chain) ==
    [k \in 1..Len(chain.modules) |->
        IF chain.modules[k].deviceName = None \/ chain.modules[k].deviceName = <<"">>
        THEN "Unknown Device" ELSE chain.modules[k].deviceName[1]]

(* a step in which the only call in flight, a redraw by fn, returns or rejects *)
RedrawEnds(fn) ==
    /\ Len(calls) = 1
    /\ calls[1].fn = fn
    /\ calls[1].pc = "fill"
    /\ calls' = <<>>

(***************************************************************************)
(* C5  As claimed: when the catalog view has been drawn for n chains, key  *)
(* 0 shows "Show Chains", chain k (0-based) is on key k+2 for k <          *)
(* min(n,30), key 1 shows no chain, and chains k >= 30 are on no key.      *)
(***************************************************************************)
CatalogPlacementFromTwo ==
    [][RedrawEnds("showChains") =>
          /\ buttonTexts' = Placed(Empty, ChainNames(chains), 2, 30)
          /\ TextsOf(panel') = Placed(Empty, ChainNames(chains), 2, 30)]_vars

(***************************************************************************)
(* C5  As amended: when the catalog view has been drawn for n chains, key  *)
(* 0 shows "Show Chains", chain k (0-based) is on key k+1 for k <          *)
(* min(n,31), so key 1 shows chain 0, and chains k >= 31 are on no key.    *)
(***************************************************************************)
CatalogPlacement ==
    [][RedrawEnds("showChains") =>
          /\ buttonTexts' = Placed(Empty, ChainNames(chains), 1, 31)
          /\ TextsOf(panel') = Placed(Empty, ChainNames(chains), 1, 31)]_vars

CatalogTruncated ==
    /\ Idle /\ view = "catalog"
    /\ Len(chains) > 31
    /\ DOMAIN buttonTexts = 0..31
    /\ buttonTexts[1] = chains[1].name
    /\ buttonTexts[31] = chains[31].name

(***************************************************************************)
(* C6  When the chain-detail view of a chain with m modules has been       *)
(* drawn, module k (0-based) is on key k+2 under its device name, or the   *)
(* placeholder, for k < min(m,30), in order; modules k >= 30 are on no key *)
(* and have no action registered; and a chain whose modules all have a     *)
(* role is drawn without an error however many modules it has.             *)
(***************************************************************************)
ChainDetailPlacement ==
    [][RedrawEnds("loadChain") =>
          LET chain == Get(calls[1].chain)
              head == 1 :> chain.name
              shown == Least(Len(chain.modules), 30)
          IN  /\ errors' = {} =>
                    /\ buttonTexts' = Placed(head, ModuleLabels(chain), 2, 30)
                    /\ TextsOf(panel') = Placed(head, ModuleLabels(chain), 2, 30)
                    /\ DOMAIN buttonStates' = 1..(shown + 1)
                    /\ \A key \in 2..(shown + 1) :
                          /\ buttonStates'[key].type = "module"
                          /\ buttonStates'[key].name = ModuleLabels(chain)[key - 1]
              /\ (\A k \in 1..Len(chain.modules) : chain.modules[k].role # None)
                    => errors' = {}]_vars

DetailTruncated ==
    /\ Idle /\ view = "detail" /\ errors = {}
    /\ currentChain # None
    /\ Len(Get(currentChain).modules) > 30
    /\ DOMAIN buttonTexts = 0..31
    /\ buttonTexts[31] = ModuleLabels(Get(currentChain))[30]
    /\ ~MapHas(buttonStates, 32)

(***************************************************************************)
(* C7  A failed catalog load leaves the previous catalog in place: when a  *)
(* load's document cannot be parsed or yields zero chains, the catalog     *)
(* after the load is the catalog before it.                                *)
(***************************************************************************)
FailedLoadKeepsCatalog ==
    [][\A s \in Slots :
          (/\ At(s, "readFile")
           /\ ~Get(calls[s].doc).ok \/ Len(Get(calls[s].doc).chains) = 0
           /\ ReadFileDone(s))
          => chains' = chains]_vars

(* the error of a rejected redraw, which no handler catches *)
Unhandled == "Unhandled rejection: TypeError in showModules"

(***************************************************************************)
(* C8  As claimed: while no catalog load has succeeded, every button-down, *)
(* on key 0 too, is a no-op: the device stays blank, no text or action is  *)
(* recorded and no error escapes.                                          *)
(***************************************************************************)
EmptyCatalogStaysBlank ==
    ~loaded =>
        /\ panel = Empty
        /\ buttonTexts = Empty
        /\ buttonStates = Empty
        /\ Unhandled \notin errors

(***************************************************************************)
(* C8  As amended: while no catalog load has succeeded, the catalog is     *)
(* empty, no chain is selected, no action is registered, no error escapes, *)
(* and only key 0 is ever drawn or recorded, as "Show Chains": a           *)
(* button-down on a key i >= 1 is a no-op, and a button-down on key 0      *)
(* clears the device and redraws that one button.                          *)
(***************************************************************************)
EmptyCatalogOnlyNavButton ==
    /\ [](~loaded =>
            /\ chains = <<>>
            /\ currentChain = None
            /\ view # "detail"
            /\ buttonStates = Empty
            /\ Unhandled \notin errors
            /\ DOMAIN panel \subseteq {0}
            /\ DOMAIN buttonTexts \subseteq {0}
            /\ \A key \in DOMAIN panel : panel[key].text = "Show Chains"
            /\ \A key \in DOMAIN buttonTexts : buttonTexts[key] = "Show Chains")
    /\ [][\A k \in SeqKeys :
            (~loaded /\ GetKeyIndex(k) >= 1 /\ KeyDown(k))
            => UNCHANGED <<panel, buttonTexts, buttonStates, calls, view, currentChain>>]_vars
    /\ [][\A k \in SeqKeys :
            (~loaded /\ GetKeyIndex(k) = 0 /\ KeyDown(k))
            => panel' = Empty /\ Len(calls') = Len(calls) + 1]_vars

NavButtonOnEmptyCatalog ==
    /\ ~loaded /\ loads >= 1 /\ Idle
    /\ fired.event = "down" /\ fired.index = 0
    /\ TextsOf(panel) = (0 :> "Show Chains")
    /\ buttonTexts = (0 :> "Show Chains")

(***************************************************************************)
(* C9  A button-down on a key i >= 1 that has no recorded text and no      *)
(* registered action changes nothing, whatever the chains are named.       *)
(***************************************************************************)
UnknownSlotNoOp ==
    [][\A k \in SeqKeys :
          (/\ GetKeyIndex(k) >= 1
           /\ ~MapHas(buttonTexts, GetKeyIndex(k))
           /\ ~MapHas(buttonStates, GetKeyIndex(k))
           /\ KeyDown(k))
          => UNCHANGED <<view, currentChain, buttonTexts, buttonStates, panel, calls>>]_vars

(***************************************************************************)
(* The views a catalog has: its catalog view and the chain-detail view of  *)
(* each of its chains, as key -> text tables.  A table holds a single view *)
(* when it is part of one of them.  Two redraws draw the same view when    *)
(* they run the same function on the same chain.                           *)
(***************************************************************************)
ViewsOf(cat) ==
    {Placed(Empty, ChainNames(cat), 1, 31)}
    \cup {Placed(1 :> cat[k].name, ModuleLabels(cat[k]), 2, 30) : k \in 1..Len(cat)}
KnownViews ==
    UNION {ViewsOf(ParsedChains(d)) : d \in {x \in SmallDocuments : ~ParseThrows(x)}}
PartOf(texts, layout) ==
    \A key \in DOMAIN texts : key \in DOMAIN layout /\ texts[key] = layout[key]
SingleView(texts) == \E layout \in KnownViews : PartOf(texts, layout)

SameView(c, d) == c.fn = d.fn /\ c.chain = d.chain

(***************************************************************************)
(* C10  No interleaved redraws: once a redraw of another view has started  *)
(* (its clear is issued), an earlier redraw writes no more buttons; and    *)
(* the device and the text table never hold buttons of two different       *)
(* views.                                                                  *)
(***************************************************************************)
NoInterleavedRedraws ==
    /\ [][\A s \in Slots :
            RenderDone(s) => \A r \in (s + 1)..Len(calls) : SameView(calls[s], calls[r])]_vars
    /\ [](SingleView(TextsOf(panel)) /\ SingleView(buttonTexts))

(***************************************************************************)
(* C18  Name-based chain lookup is first-match: a button-down on a slot of *)
(* the settled catalog view whose text is T selects the chain at the       *)
(* lowest catalog position among the chains named exactly T; with two      *)
(* chains of one name, the slot of the later one selects the earlier one.  *)
(***************************************************************************)
FirstMatchLookup ==
    [][\A k \in SeqKeys :
          LET index == GetKeyIndex(k) IN
          (/\ SettledCatalog /\ index >= 1
           /\ MapHas(buttonTexts, index)
           /\ Named(buttonTexts[index]) # {}
           /\ KeyDown(k))
          => LET first == CHOOSE i \in Named(buttonTexts[index]) :
                              \A j \in Named(buttonTexts[index]) : i <= j
             IN  /\ currentChain' = Some(chains[first])
                 /\ view' = "detail"
                 /\ calls'[Len(calls')].chain = Some(chains[first])]_vars

LaterDuplicatePressed ==
    /\ Idle /\ view = "detail"
    /\ fired.event = "down" /\ fired.index = 3
    /\ Len(chains) = 3
    /\ chains[1].name = "drums" /\ chains[2].name = "Drums" /\ chains[3].name = "Drums"
    /\ currentChain = Some(chains[2])
    /\ buttonTexts = (0 :> "Show Chains" @@ 1 :> "Drums")

(* the colour the four role categories are drawn in; role is None or Some *)
CategoryColor(role) ==
    IF role \in {Some("source"), Some("Source")} THEN "#00008B"
    ELSE IF role \in {Some("proc"), Some("PROC")} THEN "#FF8C00"
    ELSE IF role \in {Some("dest"), Some("Dest")} THEN "#006400"
    ELSE "#333333"

(***************************************************************************)
(* C15  Role normalization never fails the layout: for every chain, the    *)
(* redraw of its chain-detail view ends without an error and has drawn     *)
(* every module k < min(m,30) on key k+2 in the colour of its role: dark   *)
(* blue, dark orange or dark green for source, proc or dest, neutral gray  *)
(* for any other role and for a missing role.                              *)
(***************************************************************************)
RoleNeverFailsLayout ==
    [][RedrawEnds("loadChain") =>
          LET chain == Get(calls[1].chain) IN
          /\ errors' = {}
          /\ \A k \in 1..Least(Len(chain.modules), 30) :
                /\ MapHas(panel', k + 1)
                /\ panel'[k + 1].backgroundColor = CategoryColor(chain.modules[k].role)]_vars

(***************************************************************************)
(* C17  The navigation state is the catalog view with no chain selected or *)
(* the chain-detail view of the selected chain: whenever the catalog view  *)
(* has been drawn and is displayed, no chain is selected, and a selected   *)
(* chain is always a chain of the current catalog (stated for a catalog    *)
(* that holds chains: a failed load that empties the catalog is the        *)
(* subject of C7).                                                         *)
(***************************************************************************)
OneNavigationState ==
    /\ SettledCatalog => currentChain = None
    /\ (currentChain # None /\ chains # <<>>)
          => \E k \in 1..Len(chains) : chains[k] = Get(currentChain)

(***************************************************************************)
(* What a completed view transition installs: the texts it records and the *)
(* names of the actions it registers, key by key, for the catalog view of  *)
(* a catalog and for the chain-detail view of each of its chains.          *)
(***************************************************************************)
InstallsOf(cat) ==
    {[texts |-> Placed(Empty, ChainNames(cat), 1, 31), actions |-> Empty]}
    \cup {[texts |-> Placed(1 :> cat[k].name, ModuleLabels(cat[k]), 2, 30),
           actions |-> [key \in 1..(Least(Len(cat[k].modules), 30) + 1) |->
                           IF key = 1 THEN cat[k].name
                           ELSE ModuleLabels(cat[k])[key - 1]]] : k \in 1..Len(cat)}
KnownInstalls ==
    UNION {InstallsOf(ParsedChains(d)) : d \in {x \in SeqDocuments : ~ParseThrows(x)}}
ActionNames == [key \in DOMAIN buttonStates |-> buttonStates[key].name]

(***************************************************************************)
(* C11  No stale slots: whenever no redraw is in progress, every recorded  *)
(* button text and every registered button action was installed by one     *)
(* view transition: in the catalog view no header or module action is      *)
(* registered, and in the chain-detail view no button holds a text of the  *)
(* catalog view.                                                           *)
(***************************************************************************)
NoStaleSlots ==
    Idle => \E v \in KnownInstalls :
                PartOf(buttonTexts, v.texts) /\ PartOf(ActionNames, v.actions)

(***************************************************************************)
(* C12  Loads block navigation: while a loadChainLayout call is in         *)
(* progress, a button-down starts no navigation: no redraw is started, the *)
(* device is not cleared, and the view and the selected chain stay.        *)
(***************************************************************************)
LoadsBlockNavigation ==
    [][\A k \in SmallKeys :
          ((\E s \in Slots : calls[s].load) /\ KeyDown(k))
          => UNCHANGED <<calls, view, currentChain, panel>>]_vars

(***************************************************************************)
(* C19  Recorded text matches the device: whenever no redraw or load is in *)
(* progress, after one catalog load and any sequence of button presses,    *)
(* the keys with a recorded text are the keys showing a label on the       *)
(* device, and each recorded text is the label last written to its key     *)
(* since the last device clear.                                            *)
(***************************************************************************)
RecordedTextMatchesDevice == (Idle /\ loads <= 1) => buttonTexts = TextsOf(panel)

(***************************************************************************)
(* C20  Header consistency: the MIDI channel written to key 1 is always    *)
(* the MIDI channel of the chain whose name is written in the same write,  *)
(* also when another chain is selected while the redraw is in progress.    *)
(***************************************************************************)
HeaderConsistency ==
    \A s \in Slots :
        calls[s].step = "header"
        => calls[s].face = Face(Get(calls[s].chain).name, Brown,
                                Get(calls[s].chain).midiChannel)

(***************************************************************************)
(* C13  Index normalization is shared by press and release: an 'up' event  *)
(* for key i, with the bare number i or with a structured payload of index *)
(* i, is resolved to i, and when key i has a registered release callback   *)
(* it invokes that callback, for both payload shapes.                      *)
(***************************************************************************)
ReleaseNormalized ==
    [][\A k \in SmallKeys :
          LET i == IF k.shape = "object" THEN k.index ELSE k.value IN
          KeyUp(k)
          => /\ fired'.index = i
             /\ (MapHas(buttonStates, i) /\ buttonStates[i].releaseCallback # None)
                  => fired'.invoked = <<Get(buttonStates[i].releaseCallback)>>]_vars

(***************************************************************************)
(* C14  Dial bindings and navigation are independent: only                 *)
(* registerEncoderActions changes a dial's handlers (no redraw, reset,     *)
(* load, button-down or button-up does), and every dial event leaves the   *)
(* view, the selected chain, the button texts, the registered actions and  *)
(* the device unchanged and starts no redraw.                              *)
(***************************************************************************)
DialsIndependent ==
    /\ [][encoderCallbacks' # encoderCallbacks
            => \E e \in Encoders, h \in HandlerKinds : RegisterEncoderActions(e, h)]_vars
    /\ [][(\E e \in Encoders : \/ HandleEncoderRotate(e)
                                \/ HandleEncoderPress(e)
                                \/ HandleEncoderRelease(e))
            => UNCHANGED <<view, currentChain, buttonTexts, buttonStates, panel, calls,
                           chains>>]_vars

DialTurnedInDetailView ==
    /\ SettledDetail
    /\ buttonStates # Empty
    /\ encoderCallbacks.left = Handlers(0, {"rotate", "press", "release"})
    /\ encoderCallbacks.right = Handlers(1, {"rotate"})
    /\ fired = [event |-> "dial", index |-> 1, invoked |-> <<<<"dial", 1, "rotate">>>>]

(* a step in which the only call in flight, a redraw by fn, ends *)
RedrawReturns(fn) ==
    /\ Len(calls) = 1
    /\ calls[1].fn = fn
    /\ calls[1].pc \in {"render", "fill"}
    /\ calls' = <<>>

(* a redraw that stops after the header, whether or not a write fails: the *)
(* chain has a module without a role                                       *)
RoleMissing(c) ==
    /\ c.fn = "loadChain"
    /\ \E k \in 1..Len(Get(c.chain).modules) : Get(c.chain).modules[k].role = None

(* the texts a redraw installs when no write fails *)
TextsInstalled(c) ==
    IF c.fn = "showChains" THEN Placed(Empty, ChainNames(chains), 1, 31)
    ELSE IF RoleMissing(c) THEN Placed(1 :> Get(c.chain).name, <<>>, 2, 30)
    ELSE Placed(1 :> Get(c.chain).name, ModuleLabels(Get(c.chain)), 2, 30)

(***************************************************************************)
(* C16  Partial-layout resilience: when the render or the write of a       *)
(* button fails during a redraw, the redraw ends as it would have without  *)
(* the failure, except for the failed buttons: every other button of the   *)
(* layout is drawn and recorded, the failed buttons record no text, every  *)
(* action of the layout is registered, and the only errors reported are    *)
(* those of the failed buttons (and the error the redraw reports anyway).  *)
(***************************************************************************)
FailureConfined ==
    [][\A fn \in {"showChains", "loadChain"} :
          RedrawReturns(fn) =>
            LET installed == TextsInstalled(calls[1])
                failed == {key \in DOMAIN installed : TextError(key) \in errors'}
                kept == DOMAIN installed \ failed
            IN  /\ buttonTexts' = [key \in kept |-> installed[key]]
                /\ \A key \in kept : MapHas(panel', key) /\ panel'[key].text = installed[key]
                /\ DOMAIN panel' \subseteq DOMAIN installed
                /\ fn = "loadChain" => DOMAIN buttonStates' = DOMAIN installed \ {0}
                /\ fn = "showChains" => buttonStates' = Empty
                /\ errors' \ {TextError(key) : key \in failed}
                      = IF RoleMissing(calls[1]) THEN {Unhandled} ELSE {}]_vars

FailedButtonSkipped ==
    /\ Idle /\ view = "detail"
    /\ errors = {TextError(2)}
    /\ buttonTexts = (0 :> "Show Chains" @@ 1 :> "Drums" @@ 3 :> "Bass")
    /\ DOMAIN buttonStates = {1, 2, 3}
    /\ DOMAIN panel = {0, 1, 3}

====
